---- MODULE Spec2Model ----
(***************************************************************************)
(* Model of webcrawler.py: the task factory of main(), the worker threads  *)
(* draining TASK_QUEUE, crawl() recording findings in RESULTS, save()      *)
(* writing RESULTS to the output file, and main()'s join / queue check.    *)
(*                                                                         *)
(* Strings are sequences of tokens: "https://a.com/robots.txt" is          *)
(* <<"https://", "a.com", "/", "robots.txt">>.  A domain name is always a  *)
(* token of its own, so two strings are equal iff their token sequences    *)
(* are equal.                                                              *)
(***************************************************************************)
EXTENDS Integers, Sequences, FiniteSets, TLC

(* ---- bounds of the model ---- *)

\* Number of worker threads.  webcrawler.py:25 sets 8; the model runs a
\* smaller pool, the threads being symmetric.
THREAD_COUNT == 2

\* auto_save_interval handed to worker().  webcrawler.py:280 passes 100; the
\* model scales it down so that the queue depth reaches a non-zero multiple
\* of the interval within MaxTasks.
AutoSaveInterval == 2

\* Largest number of real tasks a configuration may produce.
MaxTasks == 2

(* ---- inputs ---- *)

SiteUniverse ==
    { <<"https://", "a.com">>,
      <<"https://", "a.com", "/">>,
      <<"http://", "b.org", "/">> }

FileUniverse == { <<"robots.txt">> }

HostUniverse == { <<"admin.", "{domain}">> }

\* Key order used by yaml.dump (sorted keys).
DomainOrder == <<"a.com", "b.org">>

Main == 0
Workers == 1..THREAD_COUNT
Threads == {Main} \cup Workers

None == "None"

VARIABLES
    config,       \* parsed yaml config and command line flags
    TASK_QUEUE,   \* queue.Queue(): sequence of tasks, head is dequeued next
    TASK_COUNT,   \* global TASK_COUNT, -1 while unassigned
    RESULTS,      \* dict: domain -> list of finding strings
    pc,           \* position of main (0) and of every worker
    sitesLeft,    \* main: sites not yet iterated
    site,         \* main: current (normalised) site
    filesLeft,    \* main: file patterns not yet iterated for the site
    hostsLeft,    \* main: host patterns not yet iterated for the site
    started,      \* main: number of threads started
    joined,       \* main: number of threads joined
    task,         \* worker: the task it dequeued
    resp,         \* worker: what requests.get() did in the crawl just made
    content,      \* content of the output file, a sequence of cells
    pos,          \* position of the output file object
    doc,          \* save(): document being represented by each thread
    todo,         \* save(): keys still to represent
    history,      \* ghost: every value RESULTS has had
    endsPut,      \* ghost: END tasks enqueued
    endsGot,      \* ghost: END tasks each worker dequeued
    reported,     \* ghost: probes that reported a finding
    ticks,        \* ghost: calls of print_progress that printed
    probes        \* ghost: probes made by crawl()

vars == <<config, TASK_QUEUE, TASK_COUNT, RESULTS, pc, sitesLeft, site,
          filesLeft, hostsLeft, started, joined, task, resp, content, pos, doc,
          todo, history, endsPut, endsGot, reported, ticks, probes>>

(* ---- Task model ---- *)

Task(task_type, url, args) ==
    [task_type |-> task_type, url |-> url, args |-> args]

\* Task(task_type=TASK_TYPES.END): url=None, written as the empty string here
NoUrl == <<>>

EndTask == Task("END", NoUrl, {})

\* DOMAIN_REGEX: scheme, domain, then "/..." or end of string.
DomainMatches(url) ==
    /\ Len(url) >= 2
    /\ url[1] \in {"http://", "https://"}
    /\ Len(url) > 2 => url[3] = "/"

DomainOf(url) == url[2]

\* str.format(domain=domain)
Format(pattern, domain) ==
    [i \in 1..Len(pattern) |->
        IF pattern[i] = "{domain}" THEN domain ELSE pattern[i]]

\* Faulty variant: the Host-header branch of __str__ is left out.
TaskStrPlain(t) == <<t.task_type, " ">> \o t.url

\* Task.__str__
TaskStr(t) ==
    IF t.task_type = "HOST"
    THEN <<"GET ">> \o t.url \o <<" with host ">>
            \o (CHOOSE a \in t.args : a[1] = "host_name")[2]
    ELSE <<t.task_type, " ">> \o t.url


\* Task.domain: DOMAIN_REGEX.match(self.url).groupdict()['domain']
TaskDomain(t) == DomainOf(t.url)

(* ---- Task factory (main) ---- *)

\* if not site.endswith('/'): site += '/'
Normalize(s) == IF s[Len(s)] = "/" THEN s ELSE Append(s, "/")

\* RESULTS[domain] = []
Seed(results, domain) ==
    [d \in (DOMAIN results) \cup {domain} |->
        IF d = domain THEN <<>> ELSE results[d]]

GetTask(s, file_name, domain) ==
    Task("GET", s \o Format(file_name, domain), {})

HostTask(s, host_name, domain) ==
    Task("HOST", s, {<<"host_name", Format(host_name, domain)>>})

\* Faulty variant: two END tasks per thread.
PutEndTwice(q) == Append(Append(q, EndTask), EndTask)

\* Faulty variant: the END task jumps the queue.
PutEndFront(q) == <<EndTask>> \o q

\* TASK_QUEUE.put(Task(task_type=TASK_TYPES.END))
PutEnd(q) == Append(q, EndTask)

\* Faulty variant: only --no-auto-save is looked at, a terminal gets checkpoints.
WorkerOutFileIgnoreTty(cfg) == ~cfg.no_auto_save

\* 'out_file' kwarg of worker(): None if args.no_auto_save or isatty
WorkerOutFile(cfg) == ~(cfg.no_auto_save \/ cfg.isatty)

(* ---- HTTP probe ---- *)

Statuses == {200, 304, 404}
ContentTypes == {"text/html", "TEXT/HTML; charset=utf-8", "text/plain", "absent"}
Bodies == {"", "body"}

\* What requests.get() can do: raise (timeout, connection error) or return
\* a response.
Responses ==
    { [error |-> TRUE, status |-> 0, ctype |-> "absent", text |-> ""] } \cup
    [error : {FALSE}, status : Statuses, ctype : ContentTypes, text : Bodies]

\* requests' raise_for_status(): HTTPError for 4xx and 5xx
RaisesForStatus(r) == r.status >= 400 /\ r.status < 600

\* str.lower() of the content types above
Lower(ctype) ==
    IF ctype = "TEXT/HTML; charset=utf-8" THEN "text/html; charset=utf-8"
    ELSE ctype

\* str.startswith('text/html') of the lowered content types above
StartsWithHtml(ctype) == ctype \in {"text/html", "text/html; charset=utf-8"}

\* req.headers['content-type'].lower().startswith('text/html')
IsHtml(ctype) == StartsWithHtml(Lower(ctype))

\* Faulty variant: raise_for_status() is left out, error pages are content.
http_get_unchecked(r) ==
    IF r.error \/ r.ctype = "absent" THEN None
    ELSE IF ~IsHtml(r.ctype) THEN r.text
    ELSE None

\* http_get: the text, or None (any Exception is caught, a missing
\* content-type header raising KeyError included; html falls off the end)
http_get(r) ==
    IF r.error \/ RaisesForStatus(r) \/ r.ctype = "absent" THEN None
    ELSE IF ~IsHtml(r.ctype) THEN r.text
    ELSE None

\* http_get_host: the text, or None
http_get_host(r) ==
    IF r.error \/ RaisesForStatus(r) THEN None ELSE r.text

\* 'if content:' in crawl
Truthy(c) == c # None /\ c # ""

\* crawl: does the probe of task t, answered by r, get recorded?
Finding(t, r) ==
    IF t.task_type = "GET" THEN Truthy(http_get(r))
    ELSE IF t.task_type = "HOST" THEN Truthy(http_get_host(r))
    ELSE FALSE

\* Faulty variant: the finding is filed under the scheme of the url, the key created
\* when missing.
RecordWrongKey(results, t) ==
    [d \in (DOMAIN results) \cup {t.url[1]} |->
        IF d = t.url[1]
        THEN Append(IF d \in DOMAIN results THEN results[d] ELSE <<>>, TaskStr(t))
        ELSE results[d]]

\* Faulty variant: the list is replaced, not appended to.
RecordOverwrite(results, t) ==
    [results EXCEPT ![TaskDomain(t)] = <<TaskStr(t)>>]

\* RESULTS[task.domain].append(str(task))
Record(results, t) ==
    [results EXCEPT ![TaskDomain(t)] = Append(@, TaskStr(t))]

(* ---- save ---- *)

DocStart == [cell |-> "---", key |-> "", val |-> <<>>]

\* One key of the mapping and its list: "key: []" or "key:" and its items.
Cells(d, list) ==
    <<[cell |-> IF list = <<>> THEN "key[]" ELSE "key", key |-> d, val |-> <<>>]>>
    \o [i \in 1..Len(list) |-> [cell |-> "item", key |-> "", val |-> list[i]]]

\* Keys of a dict in the order yaml.dump represents them.
RECURSIVE SortedFrom(_, _)
SortedFrom(keys, i) ==
    IF i > Len(DomainOrder) THEN <<>>
    ELSE (IF DomainOrder[i] \in keys THEN <<DomainOrder[i]>> ELSE <<>>)
         \o SortedFrom(keys, i + 1)

SortedKeys(results) == SortedFrom(DOMAIN results, 1)

\* The document yaml.dump(dict(results), explicit_start=True) produces.
RECURSIVE RenderFrom(_, _)
RenderFrom(results, keys) ==
    IF keys = <<>> THEN <<>>
    ELSE Cells(Head(keys), results[Head(keys)]) \o RenderFrom(results, Tail(keys))

Render(results) == <<DocStart>> \o RenderFrom(results, SortedKeys(results))

\* stream.write(d) on a file whose position is p
WriteAt(c, p, d) ==
    SubSeq(c, 1, p) \o d \o SubSeq(c, p + Len(d) + 1, Len(c))

\* Faulty variant: truncate() is left out, what lay behind the document stays.
TruncateNothing(c, p) == c

\* out_file.truncate()
Truncate(c, p) == SubSeq(c, 1, p)


\* No crawl made, or its response dropped on leaving crawl().
NoResponse == [error |-> FALSE, status |-> 0, ctype |-> "absent", text |-> ""]

(* ---- initial state ---- *)

\* Every site matches DOMAIN_REGEX: on any other main() dies in the factory
\* loop, before a thread is started.
Configs ==
    { c \in [sites : SUBSET SiteUniverse, files : SUBSET FileUniverse,
             hosts : SUBSET HostUniverse, no_progress : BOOLEAN,
             no_auto_save : BOOLEAN, isatty : BOOLEAN] :
        /\ \A s \in c.sites : DomainMatches(s)
        /\ Cardinality(c.sites) * (Cardinality(c.files) + Cardinality(c.hosts))
                <= MaxTasks }

Init ==
    /\ config \in Configs
    /\ TASK_QUEUE = <<>>
    /\ TASK_COUNT = -1
    /\ RESULTS = <<>>
    /\ pc = [t \in Threads |-> IF t = Main THEN "factory" ELSE "idle"]
    /\ sitesLeft = config.sites
    /\ site = <<>>
    /\ filesLeft = {}
    /\ hostsLeft = {}
    /\ started = 0
    /\ joined = 0
    /\ task = [w \in Workers |-> EndTask]
    /\ resp = [w \in Workers |-> NoResponse]
    /\ content = <<>>
    /\ pos = 0
    /\ doc = [t \in Threads |-> <<>>]
    /\ todo = [t \in Threads |-> <<>>]
    /\ history = {RESULTS}
    /\ endsPut = 0
    /\ endsGot = [w \in Workers |-> 0]
    /\ reported = 0
    /\ ticks = 0
    /\ probes = 0

mainLocals == <<sitesLeft, site, filesLeft, hostsLeft, started, joined>>
sink == <<content, pos, doc, todo>>
ghost == <<history, endsPut, endsGot, reported, ticks, probes>>

(* ---- main ---- *)

\* for site in set(config['sites']): ... RESULTS[domain] = [] ...
MainNextSite ==
    /\ pc[Main] = "factory"
    /\ filesLeft = {} /\ hostsLeft = {}
    /\ \E s \in sitesLeft :
        /\ sitesLeft' = sitesLeft \ {s}
        /\ RESULTS' = Seed(RESULTS, DomainOf(s))
        /\ history' = history \cup {RESULTS'}
        /\ site' = Normalize(s)
        /\ filesLeft' = config.files
        /\ hostsLeft' = config.hosts
    /\ UNCHANGED <<config, resp, TASK_QUEUE, TASK_COUNT, pc, started, joined, task,
                   sink, endsPut, endsGot, reported, ticks, probes>>

\* for file_name in set(config.get('search_for_files', [])): put GET task
MainPutGet ==
    /\ pc[Main] = "factory"
    /\ \E f \in filesLeft :
        /\ filesLeft' = filesLeft \ {f}
        /\ TASK_QUEUE' = Append(TASK_QUEUE, GetTask(site, f, DomainOf(site)))
    /\ UNCHANGED <<config, resp, TASK_COUNT, RESULTS, pc, sitesLeft, site, hostsLeft,
                   started, joined, task, sink, ghost>>

\* for host_name in set(config.get('fake_host_names', [])): put HOST task
MainPutHost ==
    /\ pc[Main] = "factory"
    /\ filesLeft = {}
    /\ \E h \in hostsLeft :
        /\ hostsLeft' = hostsLeft \ {h}
        /\ TASK_QUEUE' = Append(TASK_QUEUE, HostTask(site, h, DomainOf(site)))
    /\ UNCHANGED <<config, resp, TASK_COUNT, RESULTS, pc, sitesLeft, site, filesLeft,
                   started, joined, task, sink, ghost>>

\* TASK_COUNT = TASK_QUEUE.qsize()
MainTaskCount ==
    /\ pc[Main] = "factory"
    /\ sitesLeft = {} /\ filesLeft = {} /\ hostsLeft = {}
    /\ TASK_COUNT' = Len(TASK_QUEUE)
    /\ pc' = [pc EXCEPT ![Main] = "start"]
    /\ UNCHANGED <<config, resp, TASK_QUEUE, RESULTS, mainLocals, task, sink, ghost>>

\* thread.start()
MainStartThread ==
    /\ pc[Main] = "start"
    /\ started' = started + 1
    /\ pc' = [pc EXCEPT ![Main] = "put_end", ![started + 1] = "get"]
    /\ UNCHANGED <<config, resp, TASK_QUEUE, TASK_COUNT, RESULTS, sitesLeft, site,
                   filesLeft, hostsLeft, joined, task, sink, ghost>>

\* TASK_QUEUE.put(Task(task_type=TASK_TYPES.END)), then the next thread
MainPutEnd ==
    /\ pc[Main] = "put_end"
    /\ TASK_QUEUE' = PutEnd(TASK_QUEUE)
    /\ endsPut' = endsPut + (Len(TASK_QUEUE') - Len(TASK_QUEUE))
    /\ pc' = [pc EXCEPT ![Main] =
                IF started = THREAD_COUNT THEN "join" ELSE "start"]
    /\ UNCHANGED <<config, resp, TASK_COUNT, RESULTS, mainLocals, task, sink,
                   history, endsGot, reported, ticks, probes>>

\* for thread in threads: thread.join()
MainJoin ==
    /\ pc[Main] = "join"
    /\ joined < THREAD_COUNT
    /\ pc[joined + 1] \in {"done", "crashed"}
    /\ joined' = joined + 1
    /\ UNCHANGED <<config, resp, TASK_QUEUE, TASK_COUNT, RESULTS, pc, sitesLeft, site,
                   filesLeft, hostsLeft, started, task, sink, ghost>>

\* if not TASK_QUEUE.empty(): exit(1), else save(args.out_file)
MainCheckQueue ==
    /\ pc[Main] = "join"
    /\ joined = THREAD_COUNT
    /\ pc' = [pc EXCEPT ![Main] =
                IF TASK_QUEUE # <<>> THEN "exit1" ELSE "save"]
    /\ UNCHANGED <<config, resp, TASK_QUEUE, TASK_COUNT, RESULTS, mainLocals, task,
                   sink, ghost>>


(* ---- worker ---- *)

\* task = TASK_QUEUE.get(): blocks while the queue is empty
WorkerGet(w) ==
    /\ pc[w] = "get"
    /\ TASK_QUEUE # <<>>
    /\ task' = [task EXCEPT ![w] = Head(TASK_QUEUE)]
    /\ TASK_QUEUE' = Tail(TASK_QUEUE)
    /\ endsGot' = [endsGot EXCEPT ![w] =
                    @ + (IF Head(TASK_QUEUE).task_type = "END" THEN 1 ELSE 0)]
    /\ pc' = [pc EXCEPT ![w] = "progress"]
    /\ UNCHANGED <<config, resp, TASK_COUNT, RESULTS, mainLocals, sink,
                   history, endsPut, reported, ticks, probes>>

\* print_progress divides by TASK_COUNT: ZeroDivisionError when it is 0
ProgressRaises(cfg, count) == ~cfg.no_progress /\ count = 0

\* Faulty variant: an END task is skipped, the loop goes on.
AfterProgressNoReturn(t) == IF t.task_type = "END" THEN "get" ELSE "crawl"

\* Where the loop goes after the END test: return, or crawl(task)
AfterProgress(t) == IF t.task_type = "END" THEN "done" ELSE "crawl"

\* if progress: print_progress(verbosity); if task is END: return
WorkerProgress(w) ==
    /\ pc[w] = "progress"
    /\ pc' = [pc EXCEPT ![w] =
                IF ProgressRaises(config, TASK_COUNT) THEN "crashed"
                ELSE AfterProgress(task[w])]
    /\ ticks' = IF config.no_progress \/ ProgressRaises(config, TASK_COUNT)
                THEN ticks ELSE ticks + 1
    /\ UNCHANGED <<config, resp, TASK_QUEUE, TASK_COUNT, RESULTS, mainLocals, task,
                   sink, history, endsPut, endsGot, reported, probes>>

\* crawl(task): the probe, and the append when it reports a finding.  The
\* probe touches no shared state and list.append is one atomic operation on
\* the list object, so the two are one step.
WorkerCrawl(w) ==
    /\ pc[w] = "crawl"
    /\ \E r \in Responses :
        /\ RESULTS' = IF Finding(task[w], r) THEN Record(RESULTS, task[w])
                      ELSE RESULTS
        /\ reported' = reported + (IF Finding(task[w], r) THEN 1 ELSE 0)
        /\ resp' = [resp EXCEPT ![w] = r]
    /\ history' = history \cup {RESULTS'}
    /\ probes' = probes + 1
    /\ pc' = [pc EXCEPT ![w] = "autosave"]
    /\ UNCHANGED <<config, TASK_QUEUE, TASK_COUNT, mainLocals, task, sink,
                   endsPut, endsGot, ticks>>

\* if out_file and TASK_QUEUE.qsize() % auto_save_interval == 0
AutoSaveDue(cfg, depth) ==
    WorkerOutFile(cfg) /\ depth % AutoSaveInterval = 0

WorkerAutoSave(w) ==
    /\ pc[w] = "autosave"
    /\ pc' = [pc EXCEPT ![w] =
                IF AutoSaveDue(config, Len(TASK_QUEUE)) THEN "save" ELSE "get"]
    /\ resp' = [resp EXCEPT ![w] = NoResponse]
    /\ UNCHANGED <<config, TASK_QUEUE, TASK_COUNT, RESULTS, mainLocals, task,
                   sink, ghost>>

\* Can the statement the thread is at raise?  print_progress writes to
\* stderr (only when progress is on), crawl logs to stderr around the probe,
\* save() seeks, writes and truncates the output file.
CanRaise(cfg, at) ==
    \/ at = "progress" /\ ~cfg.no_progress
    \/ at \in {"crawl", "save", "represent", "truncate"}

\* An unhandled exception raised in the loop after the dequeue: the thread
\* dies, nothing catches it.
WorkerFault(w) ==
    /\ CanRaise(config, pc[w])
    /\ pc' = [pc EXCEPT ![w] = "crashed"]
    /\ resp' = [resp EXCEPT ![w] = NoResponse]
    /\ doc' = [doc EXCEPT ![w] = <<>>]
    /\ todo' = [todo EXCEPT ![w] = <<>>]
    /\ UNCHANGED <<config, TASK_QUEUE, TASK_COUNT, RESULTS, mainLocals, task,
                   content, pos, ghost>>

(* ---- save(out_file), run by a worker or by main ---- *)

\* if not out_file.isatty(): out_file.seek(0); then yaml.dump copies the
\* dict: dict(RESULTS)
SaveSeek(t) ==
    /\ pc[t] = "save"
    /\ pos' = IF config.isatty THEN pos ELSE 0
    /\ doc' = [doc EXCEPT ![t] = <<DocStart>>]
    /\ todo' = [todo EXCEPT ![t] = SortedKeys(RESULTS)]
    /\ pc' = [pc EXCEPT ![t] = "represent"]
    /\ UNCHANGED <<config, resp, TASK_QUEUE, TASK_COUNT, RESULTS, mainLocals, task,
                   content, ghost>>

\* yaml.dump represents the next key and the list it maps to
SaveRepresent(t) ==
    /\ pc[t] = "represent"
    /\ todo[t] # <<>>
    /\ doc' = [doc EXCEPT ![t] =
                @ \o Cells(Head(todo[t]), RESULTS[Head(todo[t])])]
    /\ todo' = [todo EXCEPT ![t] = Tail(@)]
    /\ UNCHANGED <<config, resp, TASK_QUEUE, TASK_COUNT, RESULTS, pc, mainLocals,
                   task, content, pos, ghost>>

\* yaml.dump writes the document to the stream
SaveWrite(t) ==
    /\ pc[t] = "represent"
    /\ todo[t] = <<>>
    /\ content' = IF config.isatty THEN content \o doc[t]
                  ELSE WriteAt(content, pos, doc[t])
    /\ pos' = IF config.isatty THEN pos ELSE pos + Len(doc[t])
    /\ doc' = [doc EXCEPT ![t] = <<>>]
    /\ pc' = [pc EXCEPT ![t] = "truncate"]
    /\ UNCHANGED <<config, resp, TASK_QUEUE, TASK_COUNT, RESULTS, mainLocals, task,
                   todo, ghost>>

\* Faulty variant: after its checkpoint a worker probes its task again.
AfterSaveRetry(t) == IF t = Main THEN "exit0" ELSE "crawl"

\* Where save() returns to: the worker loop, or the end of main
AfterSave(t) == IF t = Main THEN "exit0" ELSE "get"

\* if not out_file.isatty(): out_file.truncate(); return
SaveTruncate(t) ==
    /\ pc[t] = "truncate"
    /\ content' = IF config.isatty THEN content ELSE Truncate(content, pos)
    /\ pc' = [pc EXCEPT ![t] = AfterSave(t)]
    /\ UNCHANGED <<config, resp, TASK_QUEUE, TASK_COUNT, RESULTS, mainLocals, task,
                   pos, doc, todo, ghost>>

(* ---- specification ---- *)

Next ==
    \/ MainNextSite
    \/ MainPutGet
    \/ MainPutHost
    \/ MainTaskCount
    \/ MainStartThread
    \/ MainPutEnd
    \/ MainJoin
    \/ MainCheckQueue
    \/ \E w \in Workers : WorkerGet(w)
    \/ \E w \in Workers : WorkerProgress(w)
    \/ \E w \in Workers : WorkerCrawl(w)
    \/ \E w \in Workers : WorkerAutoSave(w)
    \/ \E w \in Workers : WorkerFault(w)
    \/ \E t \in Threads : SaveSeek(t)
    \/ \E t \in Threads : SaveRepresent(t)
    \/ \E t \in Threads : SaveWrite(t)
    \/ \E t \in Threads : SaveTruncate(t)

Spec == Init /\ [][Next]_vars


\* The threads are scheduled fairly: main and every worker keep taking the
\* steps they can take.  A fault is never forced.
MainStep ==
    \/ MainNextSite \/ MainPutGet \/ MainPutHost \/ MainTaskCount
    \/ MainStartThread \/ MainPutEnd \/ MainJoin \/ MainCheckQueue
    \/ SaveSeek(Main) \/ SaveRepresent(Main) \/ SaveWrite(Main)
    \/ SaveTruncate(Main)

WorkerStep(w) ==
    \/ WorkerGet(w) \/ WorkerProgress(w) \/ WorkerCrawl(w) \/ WorkerAutoSave(w)
    \/ SaveSeek(w) \/ SaveRepresent(w) \/ SaveWrite(w) \/ SaveTruncate(w)

\* The runs FairSpec follows: output to a file, progress shown.
FairInit == Init /\ ~config.isatty /\ ~config.no_progress

FairSpec ==
    /\ FairInit /\ [][Next]_vars
    /\ WF_vars(MainStep)
    /\ \A w \in Workers : WF_vars(WorkerStep(w))

(* ---- vocabulary of the properties ---- *)

Crashed(w) == pc[w] = "crashed"
Returned(w) == pc[w] = "done"
AnyCrash == \E w \in Workers : Crashed(w)

\* main() is past the loop of thread.join()
JoinedAll == pc[Main] \in {"join", "exit1", "save", "represent", "truncate",
                           "exit0"} /\ joined = THREAD_COUNT

IsEnd(t) == t.task_type = "END"
RealInQueue == \E i \in 1..Len(TASK_QUEUE) : ~IsEnd(TASK_QUEUE[i])

(* ---- C1 ---- *)

\* C1: crash detection.  Once main() has joined all workers, if any worker
\* terminated abnormally then the task queue is non-empty and main takes the
\* exit(1) branch (never the final save / exit 0).
C1_CrashDetected ==
    (JoinedAll /\ AnyCrash) =>
        (TASK_QUEUE # <<>> /\ pc[Main] \in {"join", "exit1"})

(* ---- C2 ---- *)

\* C2: no false alarm.  After all workers are joined, a non-empty queue
\* implies that some worker terminated abnormally; with no crash the queue is
\* empty and main does not take the error exit.
C2_NoFalseAlarm ==
    JoinedAll =>
        /\ TASK_QUEUE # <<>> => AnyCrash
        /\ ~AnyCrash => (TASK_QUEUE = <<>> /\ pc[Main] # "exit1")

\* A crash-free run with MaxTasks real tasks, joined, about to save.
C2_Witness ==
    /\ JoinedAll /\ pc[Main] = "save"
    /\ \A w \in Workers : Returned(w)
    /\ TASK_COUNT = MaxTasks
    /\ TASK_QUEUE = <<>>

(* ---- C3 ---- *)

\* C3: termination.  Under fair scheduling every worker eventually returns
\* (having dequeued an END task) or has crashed, whatever the other workers
\* do, and main's loop of joins eventually completes.
C3_Termination ==
    <>(/\ JoinedAll
       /\ \A w \in Workers :
            \/ Crashed(w)
            \/ Returned(w) /\ IsEnd(task[w]) /\ endsGot[w] = 1)

\* One worker crashed holding a real task, another returned, main joined both.
C3_Witness ==
    /\ JoinedAll
    /\ \E w1, w2 \in Workers :
        Crashed(w1) /\ ~IsEnd(task[w1]) /\ Returned(w2)

(* ---- C4 ---- *)

\* C4: termination-token protocol.  At most THREAD_COUNT (exactly
\* THREAD_COUNT once main joins) END tasks are enqueued, none before the
\* factory has enqueued every real task; no real task sits behind an END task
\* in the queue; each worker dequeues at most one END task; a worker that has
\* just dequeued an END task leaves no real task in the queue.
C4_TokenProtocol ==
    /\ endsPut <= THREAD_COUNT
    /\ pc[Main] \in {"join", "exit1", "save", "represent", "truncate", "exit0"}
            => endsPut = THREAD_COUNT
    /\ endsPut > 0 => (pc[Main] # "factory" /\ TASK_COUNT >= 0)
    /\ \A i, j \in 1..Len(TASK_QUEUE) :
            (i < j /\ IsEnd(TASK_QUEUE[i])) => IsEnd(TASK_QUEUE[j])
    /\ \A w \in Workers : endsGot[w] <= 1
    /\ \A w \in Workers :
            (pc[w] = "progress" /\ IsEnd(task[w])) => ~RealInQueue

\* Every worker has dequeued its END task after MaxTasks real tasks.
C4_Witness ==
    /\ TASK_COUNT = MaxTasks
    /\ endsPut = THREAD_COUNT
    /\ \A w \in Workers : endsGot[w] = 1 /\ Returned(w)


(* ---- C5 ---- *)

\* C5: checkpoint consistency.  Whenever the output file has been written,
\* its content is exactly one document, the rendering of RESULTS as it was at
\* some single earlier (or the present) moment.
C5_SinkIsSnapshot ==
    content # <<>> => \E h \in history : content = Render(h)

(* ---- C6 ---- *)

\* save() has done its seek and has not returned yet
InSave(t) == pc[t] \in {"represent", "truncate"}

\* C6: checkpoint mutual exclusion.  At most one thread is inside save() on
\* the output file in any reachable state.
C6_SaveMutex == Cardinality({t \in Threads : InSave(t)}) <= 1

(* ---- C7 ---- *)

InputDomains == { s[2] : s \in config.sites }

\* C7: Result Store keys.  From the end of the factory phase on, the key set
\* of RESULTS is exactly the set of domains of the configured sites.
C7_KeysAreInputDomains ==
    pc[Main] # "factory" => DOMAIN RESULTS = InputDomains

\* The run is over, one domain has a finding and another has none.
C7_Witness ==
    /\ pc[Main] = "exit0"
    /\ \E d1, d2 \in DOMAIN RESULTS : RESULTS[d1] # <<>> /\ RESULTS[d2] = <<>>

(* ---- C8 ---- *)

\* C8: factory deduplication.  When the factory has finished (TASK_COUNT
\* assigned, no thread started), no two queued tasks are equal (same kind,
\* url and args), and TASK_COUNT is the number of distinct tasks.
C8_NoDuplicateTasks ==
    (pc[Main] = "start" /\ started = 0) =>
        /\ \A i, j \in 1..Len(TASK_QUEUE) :
                i # j => TASK_QUEUE[i] # TASK_QUEUE[j]
        /\ TASK_COUNT =
                Cardinality({TASK_QUEUE[i] : i \in 1..Len(TASK_QUEUE)})

(* ---- C9 ---- *)

RECURSIVE FindingsFrom(_, _)
FindingsFrom(results, i) ==
    IF i > Len(DomainOrder) THEN 0
    ELSE (IF DomainOrder[i] \in DOMAIN results
          THEN Len(results[DomainOrder[i]]) ELSE 0)
         + FindingsFrom(results, i + 1)

TotalFindings == FindingsFrom(RESULTS, 1)

\* C9: no lost updates.  In every state the number of finding strings stored
\* in RESULTS equals the number of probes that reported a finding, and a
\* worker whose probe just reported a finding finds its string in the list
\* of the task's domain.
C9_NoLostUpdates ==
    /\ TotalFindings = reported
    /\ \A w \in Workers :
        (pc[w] = "autosave" /\ Finding(task[w], resp[w])) =>
            \E i \in 1..Len(RESULTS[task[w].url[2]]) :
                RESULTS[task[w].url[2]][i] = TaskStr(task[w])

\* Two workers have each just recorded a finding for the same domain.
C9_Witness ==
    \E w1, w2 \in Workers :
        /\ w1 # w2
        /\ pc[w1] = "autosave" /\ pc[w2] = "autosave"
        /\ Finding(task[w1], resp[w1]) /\ Finding(task[w2], resp[w2])
        /\ task[w1].url[2] = task[w2].url[2]
        /\ Len(RESULTS[task[w1].url[2]]) = 2

(* ---- C10 ---- *)

\* What C10 says makes a Get probe a finding: the request completes, the
\* status is 2xx and the content type does not begin with text/html.
ClaimedGetFinding(r) ==
    /\ ~r.error
    /\ r.status >= 200 /\ r.status <= 299
    /\ r.ctype \notin {"text/html", "TEXT/HTML; charset=utf-8"}

\* C10: Get classification.  Every crawl of a GET task appends a finding if
\* and only if the response meets ClaimedGetFinding, whatever its status,
\* content-type header and body.
C10_GetClassification ==
    [][\A w \in Workers :
        (pc[w] = "crawl" /\ pc'[w] = "autosave" /\ task[w].task_type = "GET")
            => ((RESULTS' # RESULTS) <=> ClaimedGetFinding(resp'[w]))]_vars

(* ---- C11 ---- *)

\* What C11 says makes a HostSpoof probe a finding: the request completes
\* and the status is not an error status; content type and body play no part.
ClaimedHostFinding(r) ==
    /\ ~r.error
    /\ r.status >= 200 /\ r.status <= 399

\* C11: HostSpoof classification.  Every crawl of a HOST task appends a
\* finding if and only if the request with the overridden Host header
\* completed successfully, whatever the content type and whether or not the
\* body is empty.
C11_HostClassification ==
    [][\A w \in Workers :
        (pc[w] = "crawl" /\ pc'[w] = "autosave" /\ task[w].task_type = "HOST")
            => ((RESULTS' # RESULTS) <=> ClaimedHostFinding(resp'[w]))]_vars

(* ---- C12 ---- *)

\* The failures of a probe as C12 lists them: timeout or connection error,
\* a status that is not 2xx and, for a Get probe, an excluded or missing
\* content type.
ClaimedFailure(t, r) ==
    \/ r.error
    \/ r.status < 200 \/ r.status > 299
    \/ /\ t.task_type = "GET"
       /\ r.ctype \in {"text/html", "TEXT/HTML; charset=utf-8", "absent"}

\* The same with "a status that is not 2xx" narrowed to a 4xx or 5xx status.
ErrorFailure(t, r) ==
    \/ r.error
    \/ r.status >= 400
    \/ /\ t.task_type = "GET"
       /\ r.ctype \in {"text/html", "TEXT/HTML; charset=utf-8", "absent"}

\* The run is over: main has joined every worker and tested the queue.
RunEnded == pc[Main] \in {"exit1", "save", "represent", "truncate", "exit0"}

\* A crawl step whose probe fails in the sense of Fails leaves RESULTS and
\* the count of findings unchanged and the worker in its loop, and the
\* worker's next step from there is the next dequeue or the checkpoint save
\* before it.
Absorbed(Fails(_, _)) ==
    \A w \in Workers :
        /\ (pc[w] = "crawl" /\ pc'[w] # "crawl" /\ pc'[w] # "crashed"
            /\ Fails(task[w], resp'[w]))
               => (RESULTS' = RESULTS /\ reported' = reported
                   /\ pc'[w] = "autosave")
        /\ (pc[w] = "autosave" /\ pc'[w] # "autosave")
               => pc'[w] \in {"get", "save"}

\* A run without a crashed worker in which no probe reported a finding has
\* ended with an empty queue, on the path to exit status 0, with an empty
\* list for every domain.
AllFailedRunEndsClean ==
    (RunEnded /\ ~AnyCrash /\ reported = 0)
        => /\ TASK_QUEUE = <<>>
           /\ pc[Main] # "exit1"
           /\ \A d \in DOMAIN RESULTS : RESULTS[d] = <<>>

MainSaving == pc[Main] \in {"save", "represent", "truncate", "exit0"}

\* C13: final save.  Main saves only when it found the queue empty after the
\* joins, and then every worker has finished, so that no save of a worker
\* overlaps or follows main's; when main has finished its save the content of
\* the sink is the document of the final RESULTS, which holds every finding
\* reported during the run; when main found the queue non-empty it exits
\* with status 1 and never saves; and after either exit the sink and RESULTS
\* stay as they are.
C13_FinalSave ==
    /\ [](MainSaving =>
            /\ TASK_QUEUE = <<>>
            /\ \A w \in Workers : Returned(w) \/ Crashed(w))
    /\ [](pc[Main] = "exit0" =>
            /\ content = Render(RESULTS)
            /\ TotalFindings = reported)
    /\ [](pc[Main] = "exit1" => TASK_QUEUE # <<>>)
    /\ [][pc[Main] \in {"exit0", "exit1"} =>
            (pc'[Main] = pc[Main] /\ content' = content
             /\ RESULTS' = RESULTS)]_vars

\* Main has finished its final save of a run in which the workers could
\* checkpoint and both probes reported a finding.
C13_Witness ==
    /\ pc[Main] = "exit0"
    /\ ~config.no_auto_save /\ ~config.isatty
    /\ reported = MaxTasks
    /\ content = Render(RESULTS)

(* ---- C14 ---- *)

\* a worker has called save() and not returned from it
WorkerSaving == \E w \in Workers : pc[w] \in {"save", "represent", "truncate"}

\* C14: no mid-run checkpoint when disabled.  In a run started with
\* --no-auto-save, or whose output is an interactive terminal, no worker is
\* ever inside save(), and the sink holds nothing until main, having joined
\* every worker, writes it in its final save.
C14_NoCheckpointWhenDisabled ==
    (config.no_auto_save \/ config.isatty) =>
        /\ ~WorkerSaving
        /\ content # <<>> =>
            /\ pc[Main] \in {"truncate", "exit0"}
            /\ \A w \in Workers : Returned(w) \/ Crashed(w)
            /\ content = Render(RESULTS)

\* A run on a terminal, auto-save left on, has probed MaxTasks tasks and
\* main has written the only document.
C14_Witness ==
    /\ config.isatty /\ ~config.no_auto_save
    /\ probes = MaxTasks
    /\ pc[Main] = "exit0"
    /\ content # <<>>

(* ---- C15 ---- *)

\* int(progress * 100) of print_progress, progress = 1 - depth / count
\* (int() rounds towards zero)
ProgressPercent(depth, count) ==
    IF count - depth >= 0 THEN ((count - depth) * 100) \div count
    ELSE -(((depth - count) * 100) \div count)

\* C15: queue depth bound.  From the start of the first worker on the queue
\* holds at most TASK_COUNT tasks, and every progress value that
\* print_progress is about to compute is well defined (TASK_COUNT is not 0)
\* and lies between 0 and 1, that is between 0 and 100 percent.
C15_DepthBound ==
    /\ started >= 1 => Len(TASK_QUEUE) <= TASK_COUNT
    /\ \A w \in Workers :
        (pc[w] = "progress" /\ ~config.no_progress) =>
            /\ TASK_COUNT # 0
            /\ ProgressPercent(Len(TASK_QUEUE), TASK_COUNT) >= 0
            /\ ProgressPercent(Len(TASK_QUEUE), TASK_COUNT) <= 100

(* ---- C16 ---- *)

\* C16: monotone depletion.  TASK_COUNT is assigned once, before any worker
\* starts, and no step changes it afterwards; and from the start of the
\* first worker on no step increases the depth of the queue, so that the
\* progress ratio 1 - depth / TASK_COUNT never goes down from one state to
\* the next.
C16_MonotoneDepletion ==
    /\ [](started >= 1 => TASK_COUNT >= 0)
    /\ [][(TASK_COUNT >= 0 => TASK_COUNT' = TASK_COUNT)
          /\ (TASK_COUNT' # TASK_COUNT => started = 0)
          /\ (started >= 1 =>
                /\ Len(TASK_QUEUE') <= Len(TASK_QUEUE)
                /\ TASK_COUNT - Len(TASK_QUEUE') >= TASK_COUNT - Len(TASK_QUEUE))]_vars

(* ---- C17 ---- *)

\* C17: Terminate is processed with no side effect.  A worker holding an END
\* task it has just dequeued leaves its loop with its next step, by
\* returning or by dying, and that step makes no probe, changes neither
\* RESULTS nor the sink and prints no progress; and a worker that has
\* dequeued an END task is nowhere but before that step or out of its loop.
C17_EndNoSideEffect ==
    /\ [](\A w \in Workers :
            endsGot[w] >= 1 => pc[w] \in {"progress", "done", "crashed"})
    /\ [][\A w \in Workers :
            (pc[w] = "progress" /\ IsEnd(task[w]) /\ pc'[w] # "progress")
                => /\ pc'[w] \in {"done", "crashed"}
                   /\ probes' = probes
                   /\ RESULTS' = RESULTS
                   /\ content' = content
                   /\ ticks' = ticks]_vars

(* ---- C18 ---- *)

\* real (non-END) tasks in the queue
RealLeft == Cardinality({i \in 1..Len(TASK_QUEUE) : ~IsEnd(TASK_QUEUE[i])})

\* workers holding a real task they have dequeued and not yet probed
InHand ==
    Cardinality({w \in Workers :
                    pc[w] \in {"progress", "crawl"} /\ ~IsEnd(task[w])})

\* C18: each task is probed once.  A dequeue hands the head of the queue to
\* one worker and to no other; crawl is entered only with a task just
\* dequeued, and each probe is one step of a worker in crawl holding a real
\* task; once the factory is done no step puts a real task (back) in the
\* queue; so the probes made, with the tasks in hand, never outnumber the
\* real tasks dequeued; and a run that ended without a crashed worker has
\* made exactly TASK_COUNT probes and left no real task in the queue.
C18_ProbedOnce ==
    /\ [](TASK_COUNT >= 0 => probes + InHand <= TASK_COUNT - RealLeft)
    /\ [](RunEnded /\ ~AnyCrash => (probes = TASK_COUNT /\ RealLeft = 0))
    /\ [][/\ TASK_COUNT >= 0 => RealLeft' <= RealLeft
          /\ probes' # probes =>
                /\ probes' = probes + 1
                /\ \E w \in Workers :
                    /\ pc[w] = "crawl" /\ pc'[w] = "autosave"
                    /\ ~IsEnd(task[w])
          /\ \A w \in Workers :
                /\ (pc'[w] = "crawl" /\ pc[w] # "crawl") => pc[w] = "progress"
                /\ (pc'[w] = "progress" /\ pc[w] # "progress") =>
                      /\ pc[w] = "get"
                      /\ TASK_QUEUE # <<>>
                      /\ task'[w] = Head(TASK_QUEUE)
                      /\ TASK_QUEUE' = Tail(TASK_QUEUE)
                      /\ \A v \in Workers \ {w} :
                            task'[v] = task[v] /\ pc'[v] = pc[v]
                /\ task'[w] # task[w] => pc[w] = "get"]_vars

\* A run of MaxTasks real tasks has ended without a crash, every task
\* probed.
C18_Witness ==
    /\ pc[Main] = "exit0"
    /\ ~AnyCrash
    /\ TASK_COUNT = MaxTasks
    /\ probes = MaxTasks
    /\ RealLeft = 0

(* ---- C19 ---- *)

\* The rendering C19 gives a finding: "GET <url>" for a Get task and
\* "GET <url> with host <host_name>" for a HostSpoof task.
ClaimedRendering(t) ==
    IF t.task_type = "GET" THEN <<"GET", " ">> \o t.url
    ELSE <<"GET ">> \o t.url \o <<" with host ">>
            \o (CHOOSE a \in t.args : a[1] = "host_name")[2]

\* list p is a prefix of list l
IsPrefix(p, l) == Len(p) <= Len(l) /\ SubSeq(l, 1, Len(p)) = p

\* C19: recording frame rule.  Once a worker has been started, a step that
\* changes RESULTS is the probe of one worker's task and appends exactly
\* the rendering of that task to the end of the list of the domain in the
\* task's own url, leaving the keys, every other list and every earlier
\* entry as they were; so the list a domain had in any earlier value of
\* RESULTS is a prefix of the list it has now.
C19_RecordingFrame ==
    /\ [][(started >= 1 /\ RESULTS' # RESULTS) =>
            \E w \in Workers :
                /\ pc[w] = "crawl" /\ pc'[w] = "autosave"
                /\ task[w].task_type \in {"GET", "HOST"}
                /\ DOMAIN RESULTS' = DOMAIN RESULTS
                /\ task[w].url[2] \in DOMAIN RESULTS
                /\ RESULTS'[task[w].url[2]] =
                      Append(RESULTS[task[w].url[2]], ClaimedRendering(task[w]))
                /\ \A d \in DOMAIN RESULTS \ {task[w].url[2]} :
                      RESULTS'[d] = RESULTS[d]]_vars
    /\ [](\A h \in history : \A d \in DOMAIN h :
            d \in DOMAIN RESULTS /\ IsPrefix(h[d], RESULTS[d]))

\* A Get finding and after it a HostSpoof finding stand in the list of one
\* domain.
C19_Witness ==
    \E d \in DOMAIN RESULTS :
        /\ Len(RESULTS[d]) = 2
        /\ RESULTS[d][1][1] = "GET"
        /\ RESULTS[d][2][1] = "GET "
        /\ \E h \in history : d \in DOMAIN h /\ Len(h[d]) = 1

====
